---- MODULE Spec2Model ----
(***************************************************************************)
(* Model of tools/verify_connectivity.py: K8sConnectivityVerifier.         *)
(*                                                                         *)
(* One run of verify_all is a sequential process.  Every external command  *)
(* (run_cmd) is a step whose (stdout, returncode) is chosen by the         *)
(* environment.  Text is a sequence of one-character strings.  The stdout  *)
(* of a JSON listing is represented by the document it denotes: either a   *)
(* text json.loads rejects, or the parsed value.                           *)
(***************************************************************************)
EXTENDS Integers, Sequences, FiniteSets, TLC

\* ------------------------------------------------------------------------
\* Bounds of the model
\* ------------------------------------------------------------------------

\* longest "items" array of a service listing
MaxSvcs == 2

\* longest array of a rule-group (NSG) listing
MaxNsgs == 2

\* ------------------------------------------------------------------------
\* Text
\* ------------------------------------------------------------------------

UpperChars ==
  <<"A","B","C","D","E","F","G","H","I","J","K","L","M",
    "N","O","P","Q","R","S","T","U","V","W","X","Y","Z">>

LowerChars ==
  <<"a","b","c","d","e","f","g","h","i","j","k","l","m",
    "n","o","p","q","r","s","t","u","v","w","x","y","z">>

Whitespace == {" ", "\n", "\t", "\r"}

\* str.lower() on one character
lowerChar(c) ==
  IF \E i \in 1..26 : UpperChars[i] = c
  THEN LowerChars[CHOOSE i \in 1..26 : UpperChars[i] = c]
  ELSE c

\* lower as it would be if the name were compared as written
lower_as_written(s) == s

\* str.lower()
lower(s) == [i \in 1..Len(s) |-> lowerChar(s[i])]

RECURSIVE lstrip(_)
lstrip(s) ==
  IF s # <<>> /\ Head(s) \in Whitespace THEN lstrip(Tail(s)) ELSE s

RECURSIVE rstrip(_)
rstrip(s) ==
  IF s # <<>> /\ s[Len(s)] \in Whitespace
  THEN rstrip(SubSeq(s, 1, Len(s) - 1))
  ELSE s

\* str.strip()
strip(s) == rstrip(lstrip(s))

\* sub matches s at offset i (from 0)
MatchesAt(s, sub, i) ==
  \A j \in 1..Len(sub) : s[i + j] = sub[j]

\* left-to-right search for sub in s, from offset i on
RECURSIVE Find(_, _, _)
Find(s, sub, i) ==
  IF i + Len(sub) > Len(s) THEN FALSE
  ELSE IF MatchesAt(s, sub, i) THEN TRUE
  ELSE Find(s, sub, i + 1)

\* the Python operator  sub in s  on strings
Contains(s, sub) == Find(s, sub, 0)

\* ------------------------------------------------------------------------
\* Literals of the program
\* ------------------------------------------------------------------------

Running == <<"R","u","n","n","i","n","g">>

OK_C2 == <<"O","K","-","C","2">>

frontend == <<"f","r","o","n","t","e","n","d">>

c2_validation == <<"c","2","-","v","a","l","i","d","a","t","i","o","n">>

allowed_keywords == <<frontend, c2_validation>>

\* the two iterations of the per-cluster loops, in order
Clusters == <<"C1", "C2">>

\* the order in which verify_all evaluates the entries of its dict display
CheckOrder == <<"intended_connectivity", "public_exposure", "network_isolation">>

\* ------------------------------------------------------------------------
\* Outputs the environment can give to the commands of test 1
\* ------------------------------------------------------------------------

ExitCodes == {0, 1}

PhaseOutputs ==
  { Running,
    <<"R","u","n","n","i","n","g","\n">>,
    <<" ","R","u","n","n","i","n","g"," ">>,
    <<"P","e","n","d","i","n","g">>,
    <<"r","u","n","n","i","n","g">>,
    <<"R","u","n","n","i","n","g","X">>,
    <<>> }

ProbeOutputs ==
  { OK_C2,
    <<"O","K","-","C","2"," ","f","r","o","m"," ","C","2">>,
    <<"h","e","l","l","o"," ","O","K","-","C","2","\n">>,
    <<"o","k","-","c","2">>,
    <<"O","K","-","C">>,
    <<"O","K"," ","C","2">>,
    <<>> }

\* ------------------------------------------------------------------------
\* Service listings (kubectl get svc -A -o json) and list_public_loadbalancers
\* ------------------------------------------------------------------------

\* A JSON member is a pair: k says whether the key is absent, null or holds
\* a value of some type, v is the value when there is one.
Absent(v) == [k |-> "absent", v |-> v]

Null(v) == [k |-> "null", v |-> v]

Str(s) == [k |-> "str", v |-> s]

Num(s) == [k |-> "num", v |-> s]

List(l) == [k |-> "list", v |-> l]

\* an entry of status.loadBalancer.ingress
IngIp(ip) == [isDict |-> TRUE, ip |-> Str(ip)]

IngHostnameOnly == [isDict |-> TRUE, ip |-> Absent(<<>>)]

IngEmptyIp == [isDict |-> TRUE, ip |-> Str(<<>>)]

IngNotDict == [isDict |-> FALSE, ip |-> Absent(<<>>)]

Ip1 == <<"1",".","2",".","3",".","4">>

Ip2 == <<"5",".","6",".","7",".","8">>

Namespace == <<"b","o","u","t","i","q","u","e","-","c","o","r","e">>

\* a well-formed service of type LoadBalancer with the given ingress list
LBSvc(name, ingress) ==
  [ isDict       |-> TRUE,
    spec         |-> "obj",
    type         |-> "LoadBalancer",
    status       |-> "obj",
    loadBalancer |-> "obj",
    ingress      |-> ingress,
    metadata     |-> "obj",
    name         |-> Str(name),
    namespace    |-> Str(Namespace) ]

N_web_frontend == <<"w","e","b","-","f","r","o","n","t","e","n","d">>

N_FrontEnd == <<"F","r","o","n","t","E","n","d">>

N_C2_VALIDATION == <<"C","2","-","V","A","L","I","D","A","T","I","O","N">>

N_admin == <<"a","d","m","i","n">>

N_front == <<"f","r","o","n","t">>

N_redis == <<"r","e","d","i","s">>

\* the service items a listing is built from
SvcItems ==
  { LBSvc(N_web_frontend, List(<<IngIp(Ip1)>>)),
    LBSvc(N_FrontEnd, List(<<IngIp(Ip1), IngIp(Ip2)>>)),
    LBSvc(N_C2_VALIDATION, List(<<IngHostnameOnly, IngEmptyIp, IngIp(Ip2)>>)),
    LBSvc(N_admin, List(<<IngIp(Ip2)>>)),
    LBSvc(N_front, List(<<IngIp(Ip1)>>)),
    \* not of type LoadBalancer
    [LBSvc(N_redis, List(<<IngIp(Ip1)>>)) EXCEPT !.type = "ClusterIP"],
    \* LoadBalancer without an address yet
    LBSvc(N_admin, Null(<<>>)),
    \* unexpected shapes
    [LBSvc(N_web_frontend, List(<<IngIp(Ip1)>>)) EXCEPT !.metadata = "absent"],
    [LBSvc(N_web_frontend, List(<<IngIp(Ip1)>>)) EXCEPT !.name = Num(<<"7">>)],
    LBSvc(N_admin, List(<<IngHostnameOnly, IngNotDict>>)),
    [LBSvc(N_admin, List(<<IngIp(Ip1)>>)) EXCEPT !.isDict = FALSE] }

\* sequences of exactly m elements of S
SeqsOfLen(S, m) == [1..m -> S]

\* the stdout of the service listing, as the document it denotes: a text
\* json.loads rejects
SvcUnparseable == [parses |-> FALSE, top |-> "none", items |-> Absent(<<>>)]

\* ... or a JSON value that is not an object with a list of items
SvcOddDocs ==
  { [parses |-> TRUE, top |-> "list", items |-> Absent(<<>>)],
    [parses |-> TRUE, top |-> "obj", items |-> Absent(<<>>)],
    [parses |-> TRUE, top |-> "obj", items |-> Null(<<>>)] }

\* ... or an object with the list l of items
SvcList(l) == [parses |-> TRUE, top |-> "obj", items |-> List(l)]

\* result of a computation that may raise
Return(v) == [exc |-> "none", val |-> v]

Raise(e) == [exc |-> e, val |-> <<>>]

\* the dict appended for one ingress entry that has an address
endpoint(svc, ip) ==
  IF svc.metadata = "absent" THEN Raise("KeyError")
  ELSE IF svc.metadata = "null" THEN Raise("TypeError")
  ELSE IF svc.name.k = "absent" THEN Raise("KeyError")
  ELSE IF svc.namespace.k = "absent" THEN Raise("KeyError")
  ELSE Return(<<[name |-> svc.name, namespace |-> svc.namespace.v, ip |-> ip]>>)

\* the inner loop over the ingress entries of one service
RECURSIVE ingress_loop(_, _, _)
ingress_loop(svc, ings, acc) ==
  IF ings = <<>> THEN Return(acc)
  ELSE LET ing == Head(ings) IN
    IF ~ing.isDict THEN Raise("AttributeError")
    ELSE IF ing.ip.k = "str" /\ ing.ip.v # <<>>
    THEN LET e == endpoint(svc, ing.ip.v) IN
           IF e.exc # "none" THEN e
           ELSE ingress_loop(svc, Tail(ings), acc \o e.val)
    ELSE ingress_loop(svc, Tail(ings), acc)

\* the body of the outer loop for one service: the records it appends
svc_loop_body(svc) ==
  IF ~svc.isDict THEN Raise("AttributeError")
  ELSE IF svc.spec = "null" THEN Raise("AttributeError")
  ELSE IF svc.spec = "absent" \/ svc.type # "LoadBalancer" THEN Return(<<>>)
  ELSE IF svc.status = "null" THEN Raise("AttributeError")
  ELSE IF svc.status = "absent" \/ svc.loadBalancer = "absent" THEN Return(<<>>)
  ELSE IF svc.loadBalancer = "null" THEN Raise("AttributeError")
  ELSE IF svc.ingress.k # "list" THEN Return(<<>>)
  ELSE ingress_loop(svc, svc.ingress.v, <<>>)

\* the outer loop over services.get("items", [])
RECURSIVE items_loop(_, _)
items_loop(items, public_svcs) ==
  IF items = <<>> THEN Return(public_svcs)
  ELSE LET r == svc_loop_body(Head(items)) IN
    IF r.exc # "none" THEN r
    ELSE items_loop(Tail(items), public_svcs \o r.val)

\* list_public_loadbalancers as it would be without the try/except around
\* json.loads
list_public_loadbalancers_no_except(rc, doc) ==
  IF rc # 0 THEN Return(<<>>)
  ELSE IF ~doc.parses THEN Raise("JSONDecodeError")
  ELSE IF doc.top # "obj" THEN Raise("AttributeError")
  ELSE IF doc.items.k = "absent" THEN Return(<<>>)
  ELSE IF doc.items.k = "null" THEN Raise("TypeError")
  ELSE items_loop(doc.items.v, <<>>)

\* list_public_loadbalancers, given what run_cmd returned
list_public_loadbalancers(rc, doc) ==
  IF rc # 0 THEN Return(<<>>)
  ELSE IF ~doc.parses THEN Return(<<>>)
  ELSE IF doc.top # "obj" THEN Raise("AttributeError")
  ELSE IF doc.items.k = "absent" THEN Return(<<>>)
  ELSE IF doc.items.k = "null" THEN Raise("TypeError")
  ELSE items_loop(doc.items.v, <<>>)

\* not any(kw in s["name"].lower() for kw in allowed_keywords)
not_allowed(s) ==
  ~ \E i \in 1..Len(allowed_keywords) :
        Contains(lower(s.name.v), allowed_keywords[i])

\* the list comprehension critical_public
critical_public(public_svcs) ==
  IF \E i \in 1..Len(public_svcs) : public_svcs[i].name.k # "str"
  THEN Raise("AttributeError")
  ELSE Return(SelectSeq(public_svcs, not_allowed))

\* exposure_iteration as it would be if a violation were only reported and
\* the loop went on to the next cluster
exposure_iteration_scans_on(cluster, listed) ==
  LET after == IF cluster = Clusters[Len(Clusters)]
               THEN "return_true" ELSE "continue"
  IN IF listed.exc # "none" THEN [act |-> "raise", exc |-> listed.exc]
     ELSE IF listed.val = <<>> THEN [act |-> after, exc |-> "none"]
     ELSE LET c == critical_public(listed.val) IN
       IF c.exc # "none" THEN [act |-> "raise", exc |-> c.exc]
       ELSE IF c.val # <<>> /\ after = "return_true"
       THEN [act |-> "return_false", exc |-> "none"]
       ELSE [act |-> after, exc |-> "none"]

\* one iteration of the loop of test_public_exposure on the list returned for
\* a cluster: what the method does next ("raise", "return_false", "continue"
\* with the next cluster, or "return_true" after the last one)
exposure_iteration(cluster, listed) ==
  LET after == IF cluster = Clusters[Len(Clusters)]
               THEN "return_true" ELSE "continue"
  IN IF listed.exc # "none" THEN [act |-> "raise", exc |-> listed.exc]
     ELSE IF listed.val = <<>> THEN [act |-> after, exc |-> "none"]
     ELSE LET c == critical_public(listed.val) IN
       IF c.exc # "none" THEN [act |-> "raise", exc |-> c.exc]
       ELSE IF c.val # <<>> THEN [act |-> "return_false", exc |-> "none"]
       ELSE [act |-> after, exc |-> "none"]

\* ------------------------------------------------------------------------
\* Rule-group listings (az network nsg list -o json) and their summary
\* ------------------------------------------------------------------------

Rule(access) == [isDict |-> TRUE, access |-> access]

RuleNotDict == [isDict |-> FALSE, access |-> "absent"]

Nsg(name, securityRules) ==
  [isDict |-> TRUE, name |-> name, securityRules |-> securityRules]

\* the rule groups a listing is built from
NsgItems ==
  { Nsg(Str("nsg1"), List(<<Rule("Allow"), Rule("Deny"), Rule("Allow")>>)),
    Nsg(Str("nsg2"), List(<<Rule("Deny"), Rule("absent"), Rule("allow")>>)),
    Nsg(Absent(""), Absent(<<>>)),
    \* unexpected shapes
    Nsg(Str("nsg4"), Null(<<>>)),
    Nsg(Str("nsg5"), List(<<Rule("Allow"), RuleNotDict>>)),
    [Nsg(Str("nsg6"), List(<<>>)) EXCEPT !.isDict = FALSE] }

\* the stdout of the rule-group listing, as the document it denotes: a text
\* json.loads rejects; top is the type of the top-level value, truthy its
\* truth value in Python
NsgUnparseable == [parses |-> FALSE, top |-> "none", truthy |-> FALSE, v |-> <<>>]

\* ... or a JSON value that is not a list
NsgOddDocs ==
  { [parses |-> TRUE, top |-> "null", truthy |-> FALSE, v |-> <<>>],
    [parses |-> TRUE, top |-> "obj", truthy |-> FALSE, v |-> <<>>],
    [parses |-> TRUE, top |-> "obj", truthy |-> TRUE, v |-> <<>>],
    [parses |-> TRUE, top |-> "num", truthy |-> FALSE, v |-> <<>>],
    [parses |-> TRUE, top |-> "num", truthy |-> TRUE, v |-> <<>>] }

\* ... or the list l of rule groups
NsgList(l) == [parses |-> TRUE, top |-> "list", truthy |-> l # <<>>, v |-> l]

\* len([r for r in rules if r.get("access") == access])
count_rules(rules, access) ==
  Cardinality({ i \in 1..Len(rules) : rules[i].access = access })

\* the body of  for nsg in nsgs  for one element of a list: the line printed
nsg_loop_body(cluster_name, nsg) ==
  IF ~nsg.isDict THEN Raise("AttributeError")
  ELSE IF nsg.securityRules.k = "null" THEN Raise("TypeError")
  ELSE LET rules == IF nsg.securityRules.k = "list"
                    THEN nsg.securityRules.v ELSE <<>>
       IN IF \E i \in 1..Len(rules) : ~rules[i].isDict
          THEN Raise("AttributeError")
          ELSE Return(<<[cluster |-> cluster_name,
                         name    |-> IF nsg.name.k = "str" THEN nsg.name.v
                                     ELSE "<unknown>",
                         allow   |-> count_rules(rules, "Allow"),
                         deny    |-> count_rules(rules, "Deny")]>>)

\* for nsg in nsgs, on a list
RECURSIVE nsg_loop(_, _, _)
nsg_loop(cluster_name, nsgs, printed) ==
  IF nsgs = <<>> THEN Return(printed)
  ELSE LET r == nsg_loop_body(cluster_name, Head(nsgs)) IN
    IF r.exc # "none" THEN r
    ELSE nsg_loop(cluster_name, Tail(nsgs), printed \o r.val)

\* isolation_iteration as it would be if an empty listing cleared ok
isolation_iteration_empty_fails(cluster_name, ok, rc, doc) ==
  IF rc # 0
  THEN [outcome |-> "failed", ok |-> FALSE, printed |-> <<>>, exc |-> "none"]
  ELSE IF ~doc.parses
  THEN [outcome |-> "unparseable", ok |-> FALSE, printed |-> <<>>, exc |-> "none"]
  ELSE IF ~doc.truthy
  THEN [outcome |-> "empty", ok |-> FALSE, printed |-> <<>>, exc |-> "none"]
  ELSE IF doc.top = "num"
  THEN [outcome |-> "raised", ok |-> ok, printed |-> <<>>, exc |-> "TypeError"]
  ELSE IF doc.top = "obj"
  THEN [outcome |-> "raised", ok |-> ok, printed |-> <<>>, exc |-> "AttributeError"]
  ELSE LET r == nsg_loop(cluster_name, doc.v, <<>>) IN
    IF r.exc # "none"
    THEN [outcome |-> "raised", ok |-> ok, printed |-> <<>>, exc |-> r.exc]
    ELSE [outcome |-> "summarized", ok |-> ok, printed |-> r.val, exc |-> "none"]

\* one iteration of the loop of test_network_isolation, given what run_cmd
\* returned: the outcome for the cluster, the new value of ok, the summary
\* lines printed, the exception raised
isolation_iteration(cluster_name, ok, rc, doc) ==
  IF rc # 0
  THEN [outcome |-> "failed", ok |-> FALSE, printed |-> <<>>, exc |-> "none"]
  ELSE IF ~doc.parses
  THEN [outcome |-> "unparseable", ok |-> FALSE, printed |-> <<>>, exc |-> "none"]
  ELSE IF ~doc.truthy
  THEN [outcome |-> "empty", ok |-> ok, printed |-> <<>>, exc |-> "none"]
  ELSE IF doc.top = "num"
  THEN [outcome |-> "raised", ok |-> ok, printed |-> <<>>, exc |-> "TypeError"]
  ELSE IF doc.top = "obj"
  THEN [outcome |-> "raised", ok |-> ok, printed |-> <<>>, exc |-> "AttributeError"]
  ELSE LET r == nsg_loop(cluster_name, doc.v, <<>>) IN
    IF r.exc # "none"
    THEN [outcome |-> "raised", ok |-> ok, printed |-> <<>>, exc |-> r.exc]
    ELSE [outcome |-> "summarized", ok |-> ok, printed |-> r.val, exc |-> "none"]

\* ------------------------------------------------------------------------
\* Test 1: the two decisions of test_intended_connectivity
\* ------------------------------------------------------------------------

\* gate_fails as it would be if only the exit code were tested
gate_fails_exit_code_only(rc, phase) == rc # 0

\* if rc != 0 or phase != "Running"
gate_fails(rc, phase) == rc # 0 \/ phase # Running

\* probe_passes as it would be if the exit code were not tested
probe_passes_marker_only(rc, body) == Contains(body, OK_C2)

\* if rc == 0 and "OK-C2" in body
probe_passes(rc, body) == rc = 0 /\ Contains(body, OK_C2)

\* ------------------------------------------------------------------------
\* State of one run of verify_all
\* ------------------------------------------------------------------------

VARIABLES
  pc,            \* position of the run in verify_all and the check it is in
  started,       \* the checks entered so far, in order
  cmdLog,        \* the commands handed to run_cmd so far, with their exit code
  rc,            \* test_intended_connectivity: rc (-1 while unbound)
  stdout,        \* test_intended_connectivity: stdout
  phase,         \* test_intended_connectivity: phase
  body,          \* test_intended_connectivity: body
  cluster_name,  \* loop variable of the per-cluster loop being executed
  listing,       \* test_public_exposure: how the listing of each cluster ended
  discovered,    \* test_public_exposure: the names in the public_svcs
                 \* returned for each cluster
  ok,            \* test_network_isolation: ok
  nsg_outcome,   \* test_network_isolation: how each cluster's iteration ended
  printed,       \* test_network_isolation: the summary lines printed
  returned,      \* values the checks have returned to verify_all
  results,       \* verify_all: results
  self_results,  \* self.results
  all_passed,    \* verify_all: all_passed
  exception      \* exception that left verify_all, "none" if none

vars ==
  << pc, started, cmdLog, rc, stdout, phase, body, cluster_name,
     listing, discovered, ok, nsg_outcome, printed, returned, results,
     self_results, all_passed, exception >>

ClusterSet == {Clusters[i] : i \in 1..Len(Clusters)}

NotListed == [c \in ClusterSet |-> "not_listed"]

NothingDiscovered == [c \in ClusterSet |-> {}]

connVars == <<rc, stdout, phase, body>>

expoVars == <<listing, discovered>>

isoVars == <<ok, nsg_outcome, printed>>

aggVars == <<results, self_results, all_passed>>

\* run_cmd was called
Logged(cmd, cluster, code) ==
  Append(cmdLog, [cmd |-> cmd, cluster |-> cluster, rc |-> code])

\* a check returned value to verify_all
Returns(check, value) == returned @@ (check :> value)

\* __init__, before verify_all is called
Init ==
  /\ pc = "start"
  /\ started = <<>>
  /\ cmdLog = <<>>
  /\ rc = -1
  /\ stdout = <<>>
  /\ phase = <<>>
  /\ body = <<>>
  /\ cluster_name = "none"
  /\ listing = NotListed
  /\ discovered = NothingDiscovered
  /\ ok = TRUE
  /\ nsg_outcome = NotListed
  /\ printed = <<>>
  /\ returned = <<>>
  /\ results = <<>>
  /\ self_results = <<>>
  /\ all_passed = FALSE
  /\ exception = "none"

\* verify_all is called and enters test_intended_connectivity
verify_all ==
  /\ pc = "start"
  /\ pc' = "conn_phase"
  /\ started' = Append(started, CheckOrder[1])
  /\ UNCHANGED << cmdLog, connVars, cluster_name, expoVars, isoVars, returned,
                  aggVars, exception >>

\* phase_query as it would be if a failed query were issued again
phase_query_retrying ==
  /\ pc = "conn_phase"
  /\ \E code \in ExitCodes, out \in PhaseOutputs :
       /\ cmdLog' = Logged("get_pod_phase", "C1", code)
       /\ rc' = code
       /\ stdout' = out
       /\ phase' = strip(out)
       /\ IF code # 0 /\ Len(cmdLog) < 2
          THEN /\ returned' = returned
               /\ pc' = "conn_phase"
          ELSE IF gate_fails(code, strip(out))
          THEN /\ returned' = Returns(CheckOrder[1], FALSE)
               /\ pc' = "conn_ret"
          ELSE /\ returned' = returned
               /\ pc' = "conn_probe"
  /\ UNCHANGED << started, body, cluster_name, expoVars, isoVars, aggVars,
                  exception >>

\* test_intended_connectivity: the phase query and the precondition gate
phase_query ==
  /\ pc = "conn_phase"
  /\ \E code \in ExitCodes, out \in PhaseOutputs :
       /\ cmdLog' = Logged("get_pod_phase", "C1", code)
       /\ rc' = code
       /\ stdout' = out
       /\ phase' = strip(out)
       /\ IF gate_fails(code, strip(out))
          THEN /\ returned' = Returns(CheckOrder[1], FALSE)
               /\ pc' = "conn_ret"
          ELSE /\ returned' = returned
               /\ pc' = "conn_probe"
  /\ UNCHANGED << started, body, cluster_name, expoVars, isoVars, aggVars,
                  exception >>

\* test_intended_connectivity: the HTTP probe in the pod and the verdict
http_probe ==
  /\ pc = "conn_probe"
  /\ \E code \in ExitCodes, out \in ProbeOutputs :
       /\ cmdLog' = Logged("exec_curl", "C1", code)
       /\ rc' = code
       /\ stdout' = out
       /\ body' = strip(out)
       /\ returned' = Returns(CheckOrder[1], probe_passes(code, strip(out)))
  /\ pc' = "conn_ret"
  /\ UNCHANGED << started, phase, cluster_name, expoVars, isoVars, aggVars,
                  exception >>

\* connectivity_returns as it would be if verify_all stopped at a failed check
connectivity_returns_stops_on_failure ==
  /\ pc = "conn_ret"
  /\ rc' = -1 /\ stdout' = <<>> /\ phase' = <<>> /\ body' = <<>>
  /\ IF returned[CheckOrder[1]]
     THEN /\ started' = Append(started, CheckOrder[2])
          /\ cluster_name' = Clusters[1]
          /\ pc' = "expo_list"
     ELSE /\ pc' = "done"
          /\ UNCHANGED << started, cluster_name >>
  /\ UNCHANGED << cmdLog, expoVars, isoVars, returned, aggVars, exception >>

\* verify_all takes the value of test 1 and enters test_public_exposure
connectivity_returns ==
  /\ pc = "conn_ret"
  /\ rc' = -1 /\ stdout' = <<>> /\ phase' = <<>> /\ body' = <<>>
  /\ started' = Append(started, CheckOrder[2])
  /\ cluster_name' = Clusters[1]
  /\ pc' = "expo_list"
  /\ UNCHANGED << cmdLog, expoVars, isoVars, returned, aggVars, exception >>

\* the names of the endpoints of a list
Names(svcs) == { svcs[i].name : i \in 1..Len(svcs) }

\* how list_public_loadbalancers ended
listing_outcome(code, doc, listed) ==
  IF code # 0 THEN "failed"
  ELSE IF ~doc.parses THEN "unparseable"
  ELSE IF listed.exc # "none" THEN "raised"
  ELSE "listed"

\* test_public_exposure: one iteration of the loop over the clusters, when
\* run_cmd returns (doc, code) for the listing
list_services_given(code, doc) ==
  LET listed == list_public_loadbalancers(code, doc)
      it     == exposure_iteration(cluster_name, listed)
  IN /\ cmdLog' = Logged("get_svc", cluster_name, code)
     /\ listing' = [listing EXCEPT
                      ![cluster_name] = listing_outcome(code, doc, listed)]
     /\ discovered' = [discovered EXCEPT ![cluster_name] = Names(listed.val)]
     /\ CASE it.act = "raise" ->
               /\ exception' = it.exc
               /\ pc' = "crashed"
               /\ UNCHANGED << cluster_name, returned >>
          [] it.act = "return_false" ->
               /\ returned' = Returns(CheckOrder[2], FALSE)
               /\ pc' = "expo_ret"
               /\ UNCHANGED << cluster_name, exception >>
          [] it.act = "continue" ->
               /\ cluster_name' = Clusters[2]
               /\ UNCHANGED << pc, returned, exception >>
          [] it.act = "return_true" ->
               /\ returned' = Returns(CheckOrder[2], TRUE)
               /\ pc' = "expo_ret"
               /\ UNCHANGED << cluster_name, exception >>

\* test_public_exposure: one iteration, for every output of the listing; the
\* output is not read when the exit code is not 0 (line 106), so one output
\* stands for all there
list_services ==
  /\ pc = "expo_list"
  /\ \/ \E code \in ExitCodes \ {0} : list_services_given(code, SvcUnparseable)
     \/ list_services_given(0, SvcUnparseable)
     \/ \E doc \in SvcOddDocs : list_services_given(0, doc)
     \/ \E m \in 0..MaxSvcs : \E l \in SeqsOfLen(SvcItems, m) :
          list_services_given(0, SvcList(l))
  /\ UNCHANGED << started, connVars, isoVars, aggVars >>

\* verify_all takes the value of test 2 and enters test_network_isolation
exposure_returns ==
  /\ pc = "expo_ret"
  /\ listing' = NotListed
  /\ discovered' = NothingDiscovered
  /\ started' = Append(started, CheckOrder[3])
  /\ ok' = TRUE
  /\ cluster_name' = Clusters[1]
  /\ pc' = "iso_list"
  /\ UNCHANGED << cmdLog, connVars, nsg_outcome, printed, returned, aggVars,
                  exception >>

\* test_network_isolation: one iteration of the loop over the clusters, when
\* run_cmd returns (doc, code) for the listing
list_nsgs_given(code, doc) ==
  LET it == isolation_iteration(cluster_name, ok, code, doc)
  IN /\ cmdLog' = Logged("nsg_list", cluster_name, code)
     /\ nsg_outcome' = [nsg_outcome EXCEPT ![cluster_name] = it.outcome]
     /\ printed' = printed \o it.printed
     /\ ok' = it.ok
     /\ CASE it.exc # "none" ->
               /\ exception' = it.exc
               /\ pc' = "crashed"
               /\ UNCHANGED << cluster_name, returned >>
          [] it.exc = "none" /\ cluster_name = Clusters[1] ->
               /\ cluster_name' = Clusters[2]
               /\ UNCHANGED << pc, returned, exception >>
          [] it.exc = "none" /\ cluster_name # Clusters[1] ->
               /\ returned' = Returns(CheckOrder[3], it.ok)
               /\ pc' = "iso_ret"
               /\ UNCHANGED << cluster_name, exception >>

\* test_network_isolation: one iteration, for every output of the listing;
\* the output is not read when the exit code is not 0 (line 193)
list_nsgs ==
  /\ pc = "iso_list"
  /\ \/ \E code \in ExitCodes \ {0} : list_nsgs_given(code, NsgUnparseable)
     \/ list_nsgs_given(0, NsgUnparseable)
     \/ \E doc \in NsgOddDocs : list_nsgs_given(0, doc)
     \/ \E m \in 0..MaxNsgs : \E l \in SeqsOfLen(NsgItems, m) :
          list_nsgs_given(0, NsgList(l))
  /\ UNCHANGED << started, connVars, expoVars, aggVars >>

\* all_values as it would be with any() in place of all()
any_value(d) == \E k \in DOMAIN d : d[k]

\* all(results.values())
all_values(d) == \A k \in DOMAIN d : d[k]

\* verify_all takes the value of test 3, builds and stores results, and
\* computes the overall verdict
isolation_returns ==
  /\ pc = "iso_ret"
  /\ results' = returned
  /\ self_results' = returned
  /\ all_passed' = all_values(returned)
  /\ ok' = TRUE /\ nsg_outcome' = NotListed /\ printed' = <<>>
  /\ cluster_name' = "none"
  /\ pc' = "done"
  /\ UNCHANGED << started, cmdLog, connVars, expoVars, returned, exception >>

Next ==
  \/ verify_all
  \/ phase_query
  \/ http_probe
  \/ connectivity_returns
  \/ list_services
  \/ exposure_returns
  \/ list_nsgs
  \/ isolation_returns

Spec == Init /\ [][Next]_vars

\* ------------------------------------------------------------------------
\* Properties
\* ------------------------------------------------------------------------

\* run_cmd has been called with this command for this cluster
Issued(cmd, cluster) ==
  \E i \in 1..Len(cmdLog) : cmdLog[i].cmd = cmd /\ cmdLog[i].cluster = cluster

\* number of calls of run_cmd with this command for this cluster
Calls(cmd, cluster) ==
  Cardinality({ i \in 1..Len(cmdLog) :
                  cmdLog[i].cmd = cmd /\ cmdLog[i].cluster = cluster })

\* s is "Running" with nothing but white space around it
TrimsToRunning(s) ==
  \E i \in 1..Len(s) :
    /\ i + Len(Running) - 1 <= Len(s)
    /\ SubSeq(s, i, i + Len(Running) - 1) = Running
    /\ \A j \in 1..Len(s) :
         (j < i \/ j > i + Len(Running) - 1) => s[j] \in Whitespace

\* sub occurs in s at some offset
Occurs(sub, s) ==
  \E i \in 1..Len(s) :
    /\ i + Len(sub) - 1 <= Len(s)
    /\ \A j \in 1..Len(sub) : s[i + j - 1] = sub[j]

\* sub occurs in s at some offset, letters compared without regard to case
OccursIgnoringCase(sub, s) ==
  \E i \in 1..Len(s) :
    /\ i + Len(sub) - 1 <= Len(s)
    /\ \A j \in 1..Len(sub) :
         \/ s[i + j - 1] = sub[j]
         \/ \E n \in 1..26 : s[i + j - 1] = UpperChars[n] /\ sub[j] = LowerChars[n]

\* the name of a discovered endpoint matches no keyword of the allow-list
Violator(name) ==
  \/ name.k # "str"
  \/ /\ ~OccursIgnoringCase(frontend, name.v)
     /\ ~OccursIgnoringCase(c2_validation, name.v)

\* a cluster's discovered endpoints include one outside the allow-list
HasViolator(c) == \E n \in discovered[c] : Violator(n)

\* the listing of the cluster could not be retrieved
RetrievalFailed(c) == listing[c] \in {"failed", "unparseable"}

\* test_public_exposure is over: it returned, or an exception left it
ExposureOver ==
  \/ pc = "expo_ret"
  \/ pc = "crashed" /\ Len(started) = 2

\* test_network_isolation is over: it returned, or an exception left it
IsolationOver ==
  \/ pc = "iso_ret"
  \/ pc = "crashed" /\ Len(started) = 3

Other(c) == CHOOSE o \in ClusterSet : o # c

\* C1: a phase query with a non-zero exit code, or whose trimmed output is
\* not exactly "Running", makes test_intended_connectivity return False
\* without issuing the HTTP probe; the probe is issued only as the second
\* command, after a phase query with exit code 0 and phase "Running".
C1_GateBeforeProbe ==
  /\ pc = "conn_probe" =>
       /\ rc = 0 /\ TrimsToRunning(stdout) /\ phase = Running
       /\ ~Issued("exec_curl", "C1")
       /\ CheckOrder[1] \notin DOMAIN returned
  /\ (pc = "conn_ret" /\ ~Issued("exec_curl", "C1")) =>
       /\ rc # 0 \/ ~TrimsToRunning(stdout)
       /\ returned[CheckOrder[1]] = FALSE
  /\ (pc = "conn_ret" /\ Issued("exec_curl", "C1")) => phase = Running
  /\ \A i \in 1..Len(cmdLog) :
       cmdLog[i].cmd = "exec_curl" =>
         /\ i = 2
         /\ cmdLog[1].cmd = "get_pod_phase"
         /\ cmdLog[1].rc = 0

\* C1 witness: the pod is Pending (exit code 0), the check has returned False
\* and no probe was issued
C1_Witness ==
  /\ pc = "conn_ret"
  /\ rc = 0
  /\ phase = <<"P","e","n","d","i","n","g">>
  /\ ~Issued("exec_curl", "C1")
  /\ returned[CheckOrder[1]] = FALSE

\* C2: once the gate has passed, test_intended_connectivity returns True
\* exactly when the probe's exit code is 0 and its body contains "OK-C2".
C2_ProbeVerdict ==
  (pc = "conn_ret" /\ Issued("exec_curl", "C1")) =>
    (returned[CheckOrder[1]] <=> (rc = 0 /\ Occurs(OK_C2, body)))

\* C2 witness: the probe ran with exit code 0, the marker is absent
\* and the check returned False
C2_Witness ==
  /\ pc = "conn_ret"
  /\ Issued("exec_curl", "C1")
  /\ rc = 0
  /\ body = <<"o","k","-","c","2">>
  /\ returned[CheckOrder[1]] = FALSE

\* C3: for every pair of endpoint sets discovered on C1 and C2 (no listing
\* raised, every name is a string), test_public_exposure returns, and it
\* returns False exactly when some discovered endpoint has a name that
\* contains, case ignored, neither "frontend" nor "c2-validation"; with no
\* endpoint on either cluster it returns True.
C3_ExposureVerdict ==
  ( /\ ExposureOver
    /\ \A c \in ClusterSet :
         listing[c] # "raised" /\ \A n \in discovered[c] : n.k = "str" )
  => /\ pc = "expo_ret"
     /\ returned[CheckOrder[2]] = FALSE <=> \E c \in ClusterSet : HasViolator(c)
     /\ (\A c \in ClusterSet : discovered[c] = {}) => returned[CheckOrder[2]]

\* C3 witness: C1 exposes only an allow-listed name written with capitals,
\* C2 exposes a name outside the allow-list, and the check returned False
C3_Witness ==
  /\ pc = "expo_ret"
  /\ discovered["C1"] = {Str(N_FrontEnd)}
  /\ Str(N_front) \in discovered["C2"]
  /\ returned[CheckOrder[2]] = FALSE

\* C4: when the service listing of one cluster fails (non-zero exit or
\* unparseable output) and the other cluster's listing yields no endpoint
\* outside the allow-list, the failed cluster contributes no endpoint, the
\* other cluster has been listed, and test_public_exposure returns True.
C4_RetrievalFailureNotFatal ==
  \A c \in ClusterSet :
    ( /\ ExposureOver
      /\ RetrievalFailed(c)
      /\ listing[Other(c)] \in {"listed", "failed", "unparseable"}
      /\ ~HasViolator(Other(c)) )
    => /\ pc = "expo_ret"
       /\ returned[CheckOrder[2]] = TRUE
       /\ discovered[c] = {}
       /\ Issued("get_svc", Other(c))

\* C4 witness: the listing of C1 was unparseable, C2 exposes an allow-listed
\* endpoint, and the check returned True
C4_Witness ==
  /\ pc = "expo_ret"
  /\ listing["C1"] = "unparseable"
  /\ discovered["C2"] = {Str(N_web_frontend)}
  /\ returned[CheckOrder[2]] = TRUE

\* C5: when test_network_isolation returns, it returns False exactly when
\* the listing of some cluster failed or could not be parsed (an empty list
\* and the rules' contents do not matter); a failure on C1 does not stop C2
\* from being listed, and a listed cluster with rule groups is summarized.
C5_IsolationVerdict ==
  /\ pc = "iso_ret" =>
       (returned[CheckOrder[3]] = FALSE <=>
          \E c \in ClusterSet : nsg_outcome[c] \in {"failed", "unparseable"})
  /\ IsolationOver =>
       /\ nsg_outcome["C1"] \in {"failed", "unparseable"} =>
            /\ Issued("nsg_list", "C2")
            /\ nsg_outcome["C2"] # "not_listed"
       /\ \A c \in ClusterSet :
            nsg_outcome[c] = "summarized" =>
              \E i \in 1..Len(printed) : printed[i].cluster = c

\* C5 witness: the listing of C2 failed, C1 was summarized, the check
\* returned False
C5_Witness ==
  /\ pc = "iso_ret"
  /\ nsg_outcome["C1"] = "summarized"
  /\ nsg_outcome["C2"] = "failed"
  /\ \E i \in 1..Len(printed) :
       /\ printed[i] = [cluster |-> "C1", name |-> "nsg1", allow |-> 2, deny |-> 1]
  /\ returned[CheckOrder[3]] = FALSE

\* C6: the checks are entered in the order connectivity, exposure,
\* isolation, none twice; a check is entered only after the one before it
\* returned, and whatever value a check returned, the next one is entered as
\* soon as verify_all has taken that value; a completed run has entered each
\* of the three exactly once.  (A run that an exception leaves ends in the
\* check that raised it.)
C6_AllChecksRun ==
  /\ Len(started) <= 3
  /\ \A i \in 1..Len(started) : started[i] = CheckOrder[i]
  /\ \A k \in 1..2 :
       /\ Len(started) > k => CheckOrder[k] \in DOMAIN returned
       /\ ( /\ CheckOrder[k] \in DOMAIN returned
            /\ pc # <<"conn_ret", "expo_ret">>[k] )
          => Len(started) > k
  /\ pc = "done" => started = CheckOrder

\* C6 witness: a completed run in which all three checks were entered although
\* the first two returned False
C6_Witness ==
  /\ pc = "done"
  /\ started = CheckOrder
  /\ returned.intended_connectivity = FALSE
  /\ returned.public_exposure = FALSE
  /\ Len(cmdLog) >= 4

\* C7: a completed run has stored in self.results and returns a mapping with
\* exactly the three keys, each bound to the value its check returned; the
\* overall verdict is their conjunction, and nothing is stored before all
\* three checks have finished.
C7_Report ==
  /\ pc = "done" =>
       /\ DOMAIN results = {CheckOrder[1], CheckOrder[2], CheckOrder[3]}
       /\ self_results = results
       /\ \A k \in DOMAIN results : results[k] = returned[k]
       /\ all_passed <=>
            (results.intended_connectivity /\ results.public_exposure
               /\ results.network_isolation)
       /\ results.intended_connectivity =>
            \E i \in 1..Len(cmdLog) : cmdLog[i].cmd = "exec_curl" /\ cmdLog[i].rc = 0
       /\ results.network_isolation =>
            \A i \in 1..Len(cmdLog) : cmdLog[i].cmd = "nsg_list" => cmdLog[i].rc = 0
       /\ started = CheckOrder
  /\ pc # "done" => results = <<>> /\ self_results = <<>>

\* C7 witness: a completed run in which connectivity failed and the two other
\* checks passed
C7_Witness ==
  /\ pc = "done"
  /\ results = [intended_connectivity |-> FALSE, public_exposure |-> TRUE,
                network_isolation |-> TRUE]
  /\ ~all_passed

\* C8: no exception leaves a check method or verify_all, whatever the
\* external commands return.
C8_NoExceptionEscapes == pc # "crashed" /\ exception = "none"

\* C9 as stated: whenever test_public_exposure returns, the service listing
\* of C2 has been issued.
C9_BothClustersAlwaysScanned ==
  pc = "expo_ret" => Issued("get_svc", "C2")

\* C9 amended: C1 is listed first and C2 second; the listing of C2 is issued
\* only after C1's listing yielded no endpoint outside the allow-list; when
\* C1 has such an endpoint the check returns False without listing C2.
C9_ScanStopsAtViolation ==
  /\ \A i, j \in 1..Len(cmdLog) :
       (cmdLog[i].cmd = "get_svc" /\ cmdLog[j].cmd = "get_svc" /\ i < j)
         => cmdLog[i].cluster = "C1" /\ cmdLog[j].cluster = "C2"
  /\ Issued("get_svc", "C2") => Issued("get_svc", "C1")
  /\ ExposureOver =>
       /\ Issued("get_svc", "C2") =>
            listing["C1"] # "raised" /\ ~HasViolator("C1")
       /\ HasViolator("C1") /\ pc = "expo_ret" =>
            ~Issued("get_svc", "C2") /\ returned[CheckOrder[2]] = FALSE
       /\ (~HasViolator("C1") /\ pc = "expo_ret") => Issued("get_svc", "C2")

\* C9 witness: C1 exposes an endpoint outside the allow-list, the check has
\* returned False, C2 was never listed
C9_Witness ==
  /\ pc = "expo_ret"
  /\ Str(N_admin) \in discovered["C1"]
  /\ ~Issued("get_svc", "C2")
  /\ listing["C2"] = "not_listed"
  /\ returned[CheckOrder[2]] = FALSE

\* C10: no command is issued twice in a run: the phase query, the probe, the
\* service listing of each cluster and the rule-group listing of each cluster
\* are each issued at most once, also after a failure.
C10_NoRetry ==
  /\ Calls("get_pod_phase", "C1") <= 1
  /\ Calls("exec_curl", "C1") <= 1
  /\ \A c \in ClusterSet :
       Calls("get_svc", c) <= 1 /\ Calls("nsg_list", c) <= 1
  /\ Len(cmdLog) <= 6

\* C10 witness: a completed run in which the phase query and both listings
\* of C1 failed, five commands issued in all
C10_Witness ==
  /\ pc = "done"
  /\ Len(cmdLog) = 5
  /\ cmdLog[1].rc # 0 /\ cmdLog[2].rc # 0 /\ cmdLog[4].rc # 0

====
